---- MODULE Spec2Model ----
(***************************************************************************)
(* GeminiAPIManager (app/services/gemini_api_manager.py): a thin wrapper   *)
(* around the google.generativeai SDK.  Two manager objects live in one    *)
(* process and share the SDK module, whose configure() call stores the API *)
(* key process-wide.                                                       *)
(*                                                                         *)
(* Text is a sequence of chunks (non-empty strings); the Python string is  *)
(* the concatenation of the chunks, so "" is <<>>.  An Optional value is   *)
(* <<>> for None and <<x>> for the value x.                                *)
(***************************************************************************)
EXTENDS Integers, Sequences, FiniteSets, TLC

VARIABLES
    api_key,            \* api_key[m]   : self.api_key of manager m ("" when unset)
    model,              \* model[m]     : self.model of manager m
    client,             \* client[m]    : self.client, None or a GenerativeModel handle
    genai_key,          \* the key held by the SDK module after genai.configure
    initOk,             \* history: some initialize on m has returned True
    setOk,              \* history: some set_model rebuild on m has succeeded
    last,               \* the latest manager call, its inputs, return value and requests
    AVAILABLE_MODELS,   \* the class attribute: a list of references to descriptor dicts
    heap,               \* the dict objects the references point to
    returned,           \* the list object the caller got from get_available_models
    lastModels,         \* what the latest get_available_models call returned, dereferenced
    listOps             \* how many times the caller has mutated what it was given

vars == <<api_key, model, client, genai_key, initOk, setOk, last,
          AVAILABLE_MODELS, heap, returned, lastModels, listOps>>

mgrVars == <<api_key, model, client, genai_key, initOk, setOk, last>>
modelListVars == <<AVAILABLE_MODELS, heap, returned, lastModels, listOps>>

-----------------------------------------------------------------------------
(* Bounds and input sets *)

MaxTextLen == 3         \* longest provider response text, in chunks
MaxCtx == 2             \* most entries of a context_data mapping
MaxListOps == 3         \* most caller mutations of a returned model list

Keys == {"key-A", "key-B"}
DEFAULT_MODEL == "gemini-1.5-flash"
Models == {DEFAULT_MODEL, "models/gemini-2.5-pro"}

None == <<>>
Some(x) == <<x>>

Whitespace == {" ", "\n", "\t"}
ErrorTexts == {<<"simulated transport error">>}
BuildErrorText == <<"simulated transport error">>

\* Outcomes of the SDK calls genai.configure + genai.GenerativeModel.
BuildOutcomes == {"ok", "configure_raises", "model_raises"}

\* Sequences over S of length at most n.
SeqUpTo(S, n) == UNION {[1..k -> S] : k \in 0..n}

-----------------------------------------------------------------------------
(* Python truthiness *)

Truthy(s) == s # ""
TruthyOpt(o) == o # None /\ o[1] # ""

\* str(e), response.text etc. are Text; bool(text)
TruthyText(t) == Len(t) > 0

-----------------------------------------------------------------------------
(* str.strip() *)

RECURSIVE lstrip(_)
lstrip(s) == IF s = <<>> THEN s
             ELSE IF Head(s) \in Whitespace THEN lstrip(Tail(s)) ELSE s

RECURSIVE rstrip(_)
rstrip(s) == IF s = <<>> THEN s
             ELSE IF s[Len(s)] \in Whitespace THEN rstrip(SubSeq(s, 1, Len(s) - 1)) ELSE s

\* strip, were it lstrip.
strip_left_only(s) == lstrip(s)

strip(s) == rstrip(lstrip(s))

-----------------------------------------------------------------------------
(* The SDK as the manager sees it *)

\* genai.configure(api_key=key); genai.GenerativeModel(mdl): configure stores the
\* key in the SDK module, GenerativeModel receives the model name only, so the
\* new handle holds no key of its own (key = None) until its first request.
BuildClient(key, mdl, g, bo) ==
    CASE bo = "ok" ->
            [raised |-> FALSE, genai |-> Some(key),
             handle |-> Some([model |-> mdl, key |-> None])]
      [] bo = "configure_raises" ->
            [raised |-> TRUE, genai |-> g, handle |-> None]
      [] bo = "model_raises" ->
            [raised |-> TRUE, genai |-> Some(key), handle |-> None]

\* Whether the try block of initialize / set_model raises for this key.
BuildRaises(key, bo) == Truthy(key) /\ bo # "ok"

\* Outcomes of handle.generate_content: it raises (before or after the handle
\* resolved the SDK's configured client), returns a falsy response, or returns
\* a response whose .text is absent (None) or a Text.
GenOutcomesOver(Texts) ==
    [kind : {"raise"}, bound : BOOLEAN, err : ErrorTexts, text : {None}]
    \cup [kind : {"no_response"}, bound : {TRUE}, err : {<<>>}, text : {None}]
    \cup [kind : {"text"}, bound : {TRUE}, err : {<<>>},
          text : {None} \cup {Some(t) : t \in Texts}]

\* self.client.generate_content(prompt, generation_config=...): the handle takes
\* the key the SDK module holds at its first request and keeps it.
generate_content(h, g, own, prompt, max_output_tokens, temperature, go) ==
    LET k == IF h.key # None THEN h.key ELSE IF go.bound THEN g ELSE None
    IN  [handle |-> [h EXCEPT !.key = k],
         req |-> [model |-> h.model, key |-> k, own |-> own, prompt |-> prompt,
                  max_output_tokens |-> max_output_tokens,
                  temperature |-> temperature],
         raised |-> go.kind = "raise",
         err |-> go.err,
         response |-> go.kind = "text",
         text |-> go.text]

-----------------------------------------------------------------------------
(* GeminiAPIManager methods, as functions of the object s = [api_key, model, *)
(* client] and the SDK's key g.  Each method is written as the steps it     *)
(* takes, a step receiving what the steps before it produced.               *)

\* if api_key: self.api_key = api_key
store_key(s, arg) == IF TruthyOpt(arg) THEN [s EXCEPT !.api_key = arg[1]] ELSE s

\* store_key, were it to fall back on a built-in key when none is available.
store_key_or_fallback(s, arg) ==
    IF TruthyOpt(arg) THEN [s EXCEPT !.api_key = arg[1]]
    ELSE IF Truthy(s.api_key) THEN s ELSE [s EXCEPT !.api_key = "key-A"]

\* The rest of initialize: s1 is the object with the key stored, b what the
\* try block did.
initialize_result(s1, g, b) ==
    IF ~Truthy(s1.api_key)
    THEN [self |-> s1, genai |-> g, ret |-> FALSE, raised |-> FALSE]
    ELSE IF b.raised
         THEN [self |-> s1, genai |-> b.genai, ret |-> FALSE, raised |-> FALSE]
         ELSE [self |-> [s1 EXCEPT !.client = b.handle], genai |-> b.genai,
               ret |-> TRUE, raised |-> FALSE]

initialize_stored(s1, g, bo) ==
    initialize_result(s1, g, BuildClient(s1.api_key, s1.model, g, bo))

\* initialize, were it to take a built-in key when none is stored.
initialize_with_fallback_key(s, g, arg, bo) ==
    initialize_stored(store_key_or_fallback(s, arg), g, bo)

initialize(s, g, arg, bo) == initialize_stored(store_key(s, arg), g, bo)

\* __init__(api_key, model)
GeminiAPIManager(key, mdl, g, bo) ==
    IF Truthy(key)
    THEN initialize([api_key |-> key, model |-> mdl, client |-> None], g, Some(key), bo)
    ELSE [self |-> [api_key |-> key, model |-> mdl, client |-> None], genai |-> g,
          ret |-> FALSE, raised |-> FALSE]

\* set_model, were it to rebuild the handle without looking at the credential.
set_model_without_credential_check(s1, g, b) ==
    IF b.raised
    THEN [self |-> s1, genai |-> b.genai, built |-> FALSE]
    ELSE [self |-> [s1 EXCEPT !.client = b.handle], genai |-> b.genai, built |-> TRUE]

\* The rest of set_model: s1 is the object with the model id stored, b what
\* the try block does.
set_model_rebuild(s1, g, b) ==
    IF Truthy(s1.api_key)
    THEN IF b.raised
         THEN [self |-> s1, genai |-> b.genai, built |-> FALSE]
         ELSE [self |-> [s1 EXCEPT !.client = b.handle], genai |-> b.genai,
               built |-> TRUE]
    ELSE [self |-> s1, genai |-> g, built |-> FALSE]

set_model(s, g, mdl, bo) ==
    set_model_rebuild([s EXCEPT !.model = mdl], g, BuildClient(s.api_key, mdl, g, bo))

-----------------------------------------------------------------------------
(* Prompt construction of process_single_cell *)

Digit(d) == <<"0", "1", "2", "3", "4", "5", "6", "7", "8", "9">>[d + 1]

RECURSIVE IntToText(_)
IntToText(n) == IF n < 10 THEN <<Digit(n)>>
                ELSE IntToText(n \div 10) \o <<Digit(n % 10)>>

\* str(value) inside the f-string: a str is itself, an int is its decimal digits.
str(value) == IF value.t = "str" THEN value.v ELSE IntToText(value.v)

RECURSIVE ContextLines(_)
ContextLines(items) ==
    IF items = <<>> THEN <<>>
    ELSE <<"- ">> \o Head(items).key \o <<": ">> \o str(Head(items).value) \o <<"\n">>
         \o ContextLines(Tail(items))

\* FormatPrompt, were the test "context_data is not None".
FormatPrompt_context_not_none(system_prompt, user_prompt, cell_content, context_data) ==
    LET formatted_prompt ==
            system_prompt \o <<"\n", "\n">> \o user_prompt \o <<"\n", "\n">>
            \o <<"Cell content: ">> \o cell_content
    IN  IF context_data # None
        THEN formatted_prompt \o <<"\n", "\n", "Context information:", "\n">>
             \o ContextLines(context_data[1])
        ELSE formatted_prompt

FormatPrompt(system_prompt, user_prompt, cell_content, context_data) ==
    LET formatted_prompt ==
            system_prompt \o <<"\n", "\n">> \o user_prompt \o <<"\n", "\n">>
            \o <<"Cell content: ">> \o cell_content
    IN  IF context_data # None /\ Len(context_data[1]) > 0
        THEN formatted_prompt \o <<"\n", "\n", "Context information:", "\n">>
             \o ContextLines(context_data[1])
        ELSE formatted_prompt

-----------------------------------------------------------------------------
(* test_connection and process_single_cell *)

PROBE_PROMPT == <<"Test connection - respond with just 'OK'">>
PROBE_MAX_OUTPUT_TOKENS == 10
PROBE_TEMPERATURE_TENTHS == 1
DEFAULT_MAX_TOKENS == 150
DEFAULT_TEMPERATURE_TENTHS == 3

NOT_INITIALIZED == <<"Gemini API client not initialized">>
ERROR_PREFIX == <<"Gemini Error: ">>

Ret(success, result, message) ==
    [success |-> success, result |-> result, message |-> message]

\* What the lazy initialize did: i is what initialize() returned.
lazy_initialize(i, bo) ==
    [self |-> i.self, genai |-> i.genai, ok |-> i.ret, lazy |-> TRUE,
     err |-> IF BuildRaises(i.self.api_key, bo) THEN Some(BuildErrorText) ELSE None]

\* if not self.client: if not self.initialize(): return ...
ensure_client(s, g, bo) ==
    IF s.client = None
    THEN lazy_initialize(initialize(s, g, None, bo), bo)
    ELSE [self |-> s, genai |-> g, ok |-> TRUE, lazy |-> FALSE, err |-> None]

\* The call returns without a request: the lazy initialize has failed.
NotSent(e) ==
    [self |-> e.self, genai |-> e.genai,
     ret |-> Ret(FALSE, None, Some(NOT_INITIALIZED)), reqs |-> <<>>,
     raised |-> FALSE, lazy |-> e.lazy, lazyOk |-> FALSE, provErr |-> e.err]

\* The call returns ret after the request r; err is what the provider raised.
Sent(e, r, ret, err) ==
    [self |-> [e.self EXCEPT !.client = Some(r.handle)], genai |-> e.genai,
     ret |-> ret, reqs |-> <<r.req>>,
     raised |-> FALSE, lazy |-> e.lazy, lazyOk |-> e.lazy /\ e.ok, provErr |-> err]

\* response and response.text
HasText(r) == r.response /\ r.text # None /\ TruthyText(r.text[1])

\* probe_result, were the except clause to report the generic message.
probe_result_generic_message(e, r) ==
    IF r.raised \/ ~HasText(r)
    THEN Sent(e, r, Ret(FALSE, None, Some(<<"Invalid response from Gemini API">>)),
              IF r.raised THEN Some(r.err) ELSE None)
    ELSE Sent(e, r, Ret(TRUE, None, Some(<<"Gemini connection successful">>)), None)

\* The try block of test_connection, r being what generate_content did.
probe_result(e, r) ==
    IF r.raised
    THEN Sent(e, r, Ret(FALSE, None, Some(ERROR_PREFIX \o r.err)), Some(r.err))
    ELSE IF HasText(r)
    THEN Sent(e, r, Ret(TRUE, None, Some(<<"Gemini connection successful">>)), None)
    ELSE Sent(e, r, Ret(FALSE, None, Some(<<"Invalid response from Gemini API">>)), None)

probe(e, go) ==
    IF ~e.ok THEN NotSent(e)
    ELSE probe_result(e, generate_content(e.self.client[1], e.genai, e.self.api_key,
                                          PROBE_PROMPT, PROBE_MAX_OUTPUT_TOKENS,
                                          PROBE_TEMPERATURE_TENTHS, go))

test_connection(s, g, bo, go) == probe(ensure_client(s, g, bo), go)

\* cell_result, were it to send the request again after an error.
cell_result_retry_once(e, r) ==
    IF r.raised
    THEN [Sent(e, r, Ret(FALSE, None, Some(ERROR_PREFIX \o r.err)), Some(r.err))
            EXCEPT !.reqs = <<r.req, r.req>>]
    ELSE IF HasText(r)
    THEN Sent(e, r, Ret(TRUE, Some(strip(r.text[1])), None), None)
    ELSE Sent(e, r, Ret(FALSE, None, Some(<<"Empty response from Gemini API">>)), None)

\* The try block of process_single_cell, r being what generate_content did.
cell_result(e, r) ==
    IF r.raised
    THEN Sent(e, r, Ret(FALSE, None, Some(ERROR_PREFIX \o r.err)), Some(r.err))
    ELSE IF HasText(r)
    THEN Sent(e, r, Ret(TRUE, Some(strip(r.text[1])), None), None)
    ELSE Sent(e, r, Ret(FALSE, None, Some(<<"Empty response from Gemini API">>)), None)

cell_request(e, formatted_prompt, max_tokens, temperature, go) ==
    IF ~e.ok THEN NotSent(e)
    ELSE cell_result(e, generate_content(e.self.client[1], e.genai, e.self.api_key,
                                         formatted_prompt, max_tokens, temperature, go))

process_single_cell(s, g, cell_content, system_prompt, user_prompt, temperature, max_tokens, context_data, bo, go) ==
    cell_request(ensure_client(s, g, bo),
                 FormatPrompt(system_prompt, user_prompt, cell_content, context_data),
                 max_tokens, temperature, go)

-----------------------------------------------------------------------------
(* State, inputs and actions *)

Managers == {1, 2}

Obj(m) == [api_key |-> api_key[m], model |-> model[m], client |-> client[m]]

Store(m, s, g) ==
    /\ api_key' = [api_key EXCEPT ![m] = s.api_key]
    /\ model' = [model EXCEPT ![m] = s.model]
    /\ client' = [client EXCEPT ![m] = s.client]
    /\ genai_key' = g

\* The record kept of a call: what was called on which manager with which
\* inputs, what the provider did, what the call returned and which requests
\* it issued.
Call(op, m, ret, raised, reqs, lazy, lazyOk, provErr, args, gen) ==
    [op |-> op, mgr |-> m, ret |-> ret,
     raised |-> raised, reqs |-> reqs, lazy |-> lazy, lazyOk |-> lazyOk,
     provErr |-> provErr, args |-> args, gen |-> gen]

InitArgs == {None, Some("")} \cup {Some(k) : k \in Keys}
CtorKeys == {""} \cup Keys

TextValue(t) == [t |-> "str", v |-> t]
IntValue(n) == [t |-> "int", v |-> n]

\* The inputs of the example of the documentation, with and without context.
FewCells ==
    [cell_content : {<<"B2">>}, system_prompt : {<<"Classify sentiment">>},
     user_prompt : {<<"Return positive/negative">>},
     context_data : {None, Some(<<[key |-> <<"Column A">>,
                                   value |-> TextValue(<<"Revenue">>)]>>)}]
FewGenOutcomes == GenOutcomesOver({<<>>, <<" ", "Positive", " ">>})

\* Inputs that exercise the prompt format and the trimming of the response.
CtxKeys == {<<"A">>, <<"Column", " ", "B">>, <<"C">>}
CtxValues == {TextValue(<<"Revenue">>), IntValue(42)}
CtxItems == [key : CtxKeys, value : CtxValues]
ContextDicts ==
    {None} \cup {Some(d) : d \in {x \in SeqUpTo(CtxItems, MaxCtx) :
                    \A i, j \in 1..Len(x) : i # j => x[i].key # x[j].key}}
ManyCells ==
    [cell_content : {<<>>, <<"B2">>}, system_prompt : {<<"S">>},
     user_prompt : {<<"U">>}, context_data : ContextDicts]
ManyGenOutcomes == GenOutcomesOver(SeqUpTo({" ", "\n", "P"}, MaxTextLen))

\* The state after a call of initialize that did i.
Initialized(m, i, arg, err) ==
    /\ Store(m, i.self, i.genai)
    /\ initOk' = [initOk EXCEPT ![m] = @ \/ i.ret]
    /\ last' = Call("initialize", m, Ret(i.ret, None, None), i.raised, <<>>, FALSE,
                    FALSE, err, <<arg>>, None)
    /\ UNCHANGED <<setOk, modelListVars>>

Initialize(m, arg, bo) ==
    /\ m \in Managers
    /\ Initialized(m, initialize(Obj(m), genai_key, arg, bo), arg,
                   IF BuildRaises(store_key(Obj(m), arg).api_key, bo)
                   THEN Some(BuildErrorText) ELSE None)

\* The state after a call of set_model that did r.
ModelSet(m, r, mdl, err) ==
    /\ Store(m, r.self, r.genai)
    /\ setOk' = [setOk EXCEPT ![m] = @ \/ r.built]
    /\ last' = Call("set_model", m, Ret(TRUE, None, None), FALSE, <<>>, FALSE, FALSE,
                    err, <<mdl>>, None)
    /\ UNCHANGED <<initOk, modelListVars>>

SetModel(m, mdl, bo) ==
    /\ m \in Managers
    /\ ModelSet(m, set_model(Obj(m), genai_key, mdl, bo), mdl,
                IF BuildRaises(api_key[m], bo) THEN Some(BuildErrorText) ELSE None)

\* The state after a call of test_connection or process_single_cell that did r.
Returned(op, m, r, args, go) ==
    /\ Store(m, r.self, r.genai)
    /\ initOk' = [initOk EXCEPT ![m] = @ \/ r.lazyOk]
    /\ last' = Call(op, m, r.ret, r.raised, r.reqs, r.lazy, r.lazyOk, r.provErr, args,
                    IF r.reqs = <<>> THEN None ELSE Some(go))
    /\ UNCHANGED <<setOk, modelListVars>>

TestConnection(m, bo, go) ==
    /\ m \in Managers
    /\ Returned("test_connection", m, test_connection(Obj(m), genai_key, bo, go),
                <<>>, go)

ProcessSingleCell(m, in, bo, go) ==
    /\ m \in Managers
    /\ Returned("process_single_cell", m,
                process_single_cell(Obj(m), genai_key, in.cell_content,
                                    in.system_prompt, in.user_prompt,
                                    DEFAULT_TEMPERATURE_TENTHS, DEFAULT_MAX_TOKENS,
                                    in.context_data, bo, go),
                <<in>>, go)

-----------------------------------------------------------------------------
(* The model list *)

STATIC_DESCRIPTORS ==
    << [id |-> "models/gemini-2.0-flash", name |-> "Gemini 2.0 Flash", api |-> "gemini"],
       [id |-> "models/gemini-2.0-flash-lite", name |-> "Gemini 2.0 Flash Lite", api |-> "gemini"],
       [id |-> "models/gemini-2.5-flash", name |-> "Gemini 2.5 Flash", api |-> "gemini"],
       [id |-> "models/gemini-2.5-pro", name |-> "Gemini 2.5 Pro", api |-> "gemini"] >>

InitModelList ==
    /\ heap = STATIC_DESCRIPTORS \o <<[id |-> "mine", name |-> "Mine", api |-> "other"]>>
    /\ AVAILABLE_MODELS = [i \in 1..Len(STATIC_DESCRIPTORS) |-> i]
    /\ returned = None
    /\ lastModels = None
    /\ listOps = 0

\* The dicts a list of references stands for.
Deref(list, h) == [i \in 1..Len(list) |-> h[list[i]]]

\* list.copy(): a new list object holding the same references.
copy(list) == [i \in 1..Len(list) |-> list[i]]

\* return self.AVAILABLE_MODELS.copy()
GetAvailableModels ==
    /\ returned' = Some(copy(AVAILABLE_MODELS))
    /\ lastModels' = Some(Deref(returned'[1], heap))
    /\ UNCHANGED <<AVAILABLE_MODELS, heap, listOps, mgrVars>>

\* What a caller can do to the value it got: add, remove or replace entries of
\* the list (CALLER_DICT is a dict of the caller's own), or assign a field of
\* a descriptor dict in the list.
CALLER_DICT == Len(STATIC_DESCRIPTORS) + 1
DescriptorFields == {"id", "name", "api"}

CallerAppends ==
    /\ returned # None /\ listOps < MaxListOps
    /\ returned' = Some(Append(returned[1], CALLER_DICT))
    /\ listOps' = listOps + 1
    /\ UNCHANGED <<AVAILABLE_MODELS, heap, lastModels, mgrVars>>

CallerRemoves(i) ==
    /\ returned # None /\ listOps < MaxListOps
    /\ i \in 1..Len(returned[1])
    /\ returned' = Some(SubSeq(returned[1], 1, i - 1)
                        \o SubSeq(returned[1], i + 1, Len(returned[1])))
    /\ listOps' = listOps + 1
    /\ UNCHANGED <<AVAILABLE_MODELS, heap, lastModels, mgrVars>>

CallerReplaces(i) ==
    /\ returned # None /\ listOps < MaxListOps
    /\ i \in 1..Len(returned[1])
    /\ returned' = Some([returned[1] EXCEPT ![i] = CALLER_DICT])
    /\ listOps' = listOps + 1
    /\ UNCHANGED <<AVAILABLE_MODELS, heap, lastModels, mgrVars>>

CallerSetsField(i, f) ==
    /\ returned # None /\ listOps < MaxListOps
    /\ i \in 1..Len(returned[1])
    /\ heap' = [heap EXCEPT ![returned[1][i]][f] = "changed by caller"]
    /\ listOps' = listOps + 1
    /\ UNCHANGED <<AVAILABLE_MODELS, returned, lastModels, mgrVars>>

-----------------------------------------------------------------------------
(* Specifications.  Two manager objects are built one after the other in   *)
(* one process: GeminiAPIManager(k1, m1) and then GeminiAPIManager(k2, m2). *)

BothBuilt(c1, c2, k2, m2, b2) ==
    /\ api_key = <<c1.self.api_key, c2.self.api_key>>
    /\ model = <<c1.self.model, c2.self.model>>
    /\ client = <<c1.self.client, c2.self.client>>
    /\ genai_key = c2.genai
    /\ initOk = <<c1.ret, c2.ret>>
    /\ setOk = <<FALSE, FALSE>>
    /\ last = Call("__init__", 2, Ret(c2.ret, None, None), FALSE, <<>>, FALSE, FALSE,
                   IF BuildRaises(k2, b2) THEN Some(BuildErrorText) ELSE None,
                   <<k2, m2>>, None)
    /\ InitModelList

SecondBuilt(c1, k2, m2, b2) ==
    BothBuilt(c1, GeminiAPIManager(k2, m2, c1.genai, b2), k2, m2, b2)

Constructed(K1, K2, M1, M2, B) ==
    \E k1 \in K1, k2 \in K2, m1 \in M1, m2 \in M2, b1 \in B, b2 \in B :
        SecondBuilt(GeminiAPIManager(k1, m1, None, b1), k2, m2, b2)

\* Spec: every call with every provider outcome on the first manager; the
\* second one is built with the defaults, GeminiAPIManager(), and left alone.
Init == Constructed(CtorKeys, {""}, Models, {DEFAULT_MODEL}, BuildOutcomes)

Next ==
    \/ \E arg \in InitArgs, bo \in BuildOutcomes : Initialize(1, arg, bo)
    \/ \E mdl \in Models, bo \in BuildOutcomes : SetModel(1, mdl, bo)
    \/ \E bo \in BuildOutcomes, go \in FewGenOutcomes : TestConnection(1, bo, go)
    \/ \E in \in FewCells, bo \in BuildOutcomes, go \in FewGenOutcomes :
            ProcessSingleCell(1, in, bo, go)

Spec == Init /\ [][Next]_vars

\* SpecPair: the calls interleaved on both managers, against a provider that
\* works (every build succeeds, every request returns text).
PairGenOutcomes == GenOutcomesOver({<<"OK">>}) \ GenOutcomesOver({})
PairCells == {c \in FewCells : c.context_data = None}

InitPair == Constructed({""}, {""}, {DEFAULT_MODEL}, {DEFAULT_MODEL}, {"ok"})

NextPair ==
    \/ \E m \in Managers, arg \in InitArgs : Initialize(m, arg, "ok")
    \/ \E m \in Managers, mdl \in Models : SetModel(m, mdl, "ok")
    \/ \E m \in Managers, go \in PairGenOutcomes : TestConnection(m, "ok", go)
    \/ \E m \in Managers, in \in PairCells, go \in PairGenOutcomes :
            ProcessSingleCell(m, in, "ok", go)

SpecPair == InitPair /\ [][NextPair]_vars

\* SpecCell: process_single_cell on the first manager, once over the prompt
\* inputs and once over the provider responses.
OneCell == CHOOSE c \in FewCells : c.context_data = None
OneGenOutcome == CHOOSE go \in PairGenOutcomes : TRUE

InitCell == Constructed(CtorKeys, {""}, {DEFAULT_MODEL}, {DEFAULT_MODEL}, BuildOutcomes)

NextCell ==
    \/ \E in \in ManyCells : ProcessSingleCell(1, in, "ok", OneGenOutcome)
    \/ \E bo \in BuildOutcomes, go \in ManyGenOutcomes :
            ProcessSingleCell(1, OneCell, bo, go)

SpecCell == InitCell /\ [][NextCell]_vars

\* SpecModels: get_available_models and a caller that mutates what it returns.
NextModels ==
    \/ GetAvailableModels
    \/ CallerAppends
    \/ \E i \in 1..(Len(STATIC_DESCRIPTORS) + MaxListOps) : CallerRemoves(i)
    \/ \E i \in 1..(Len(STATIC_DESCRIPTORS) + MaxListOps) : CallerReplaces(i)
    \/ \E i \in 1..(Len(STATIC_DESCRIPTORS) + MaxListOps), f \in DescriptorFields :
            CallerSetsField(i, f)

SpecModels == InitPair /\ [][NextModels]_vars

-----------------------------------------------------------------------------
(* Properties *)

IsCall(c, ops) == c.op \in ops

\* needle occurs in text as a contiguous run of chunks
Contains(text, needle) ==
    \E i \in 1..(Len(text) - Len(needle) + 1) :
        SubSeq(text, i, i + Len(needle) - 1) = needle

\* The (credential, model, handle) triple of a manager; the handle counts by
\* whether there is one and which model id it was built for.
TripleIn(keys, models, clients, m) ==
    <<keys[m], models[m],
      IF clients[m] = None THEN None ELSE Some(clients[m][1].model)>>
TripleKept(m) ==
    TripleIn(api_key', model', client', m) = TripleIn(api_key, model, client, m)

\* C1: after set_model(new_id) on a manager whose credential is set, the next
\* process_single_cell sends its request through a handle bound to new_id,
\* whatever the outcome of the rebuild and whatever handle was there before.
C1_CellAfterSetModelUsesNewModel ==
    [][(/\ last.op = "set_model"
        /\ Truthy(api_key[last.mgr])
        /\ last'.op = "process_single_cell"
        /\ last'.mgr = last.mgr)
       => \A i \in DOMAIN last'.reqs : last'.reqs[i].model = last.args[1]]_vars

\* C2: whenever initialize (explicit, from the constructor, or lazy) returns
\* False, the manager's client handle is None after the call.
C2_FailedInitializeLeavesHandleUnset ==
    (\/ IsCall(last, {"initialize", "__init__"}) /\ ~last.ret.success
     \/ last.lazy /\ ~last.lazyOk)
    => client[last.mgr] = None

\* C3 (as claimed): the client handle is non-null only if some earlier
\* initialize on that manager returned True.
C3_HandleOnlyAfterSuccessfulInitialize ==
    \A m \in Managers : client[m] # None => initOk[m]

\* C3 (amended): the client handle is non-null only if a credential is stored
\* and some earlier initialize returned True or some earlier set_model rebuilt
\* the handle.
C3_HandleOnlyAfterSuccessfulBuild ==
    \A m \in Managers :
        client[m] # None => Truthy(api_key[m]) /\ (initOk[m] \/ setOk[m])

C3_Witness == client[1] # None /\ ~initOk[1] /\ setOk[1]

\* C4: process_single_cell or test_connection called with a null handle and
\* no credential attempts the lazy initialize, returns a failure with a
\* non-empty message and no result, raises nothing, sends no request and
\* leaves the handle null.
C4_NoCredentialFailsWithoutRequest ==
    [][(/\ IsCall(last', {"process_single_cell", "test_connection"})
        /\ client[last'.mgr] = None
        /\ ~Truthy(api_key[last'.mgr]))
       => /\ last'.lazy
          /\ ~last'.ret.success
          /\ last'.ret.result = None
          /\ last'.ret.message # None
          /\ Len(last'.ret.message[1]) > 0
          /\ ~last'.raised
          /\ last'.reqs = <<>>
          /\ client'[last'.mgr] = None]_vars

C4_Witness ==
    /\ IsCall(last, {"process_single_cell"})
    /\ last.lazy
    /\ api_key[last.mgr] = ""
    /\ ~last.ret.success

\* C5 (as claimed): when the provider raises at any point of test_connection,
\* the call returns (False, message) with the error's text in the message,
\* raises nothing, and leaves the (credential, model, handle) triple as it was.
C5_ProviderErrorReportedTripleKept ==
    [][(IsCall(last', {"test_connection"}) /\ last'.provErr # None)
       => /\ ~last'.ret.success
          /\ Contains(last'.ret.message[1], last'.provErr[1])
          /\ ~last'.raised
          /\ TripleKept(last'.mgr)]_vars

\* C5 (amended): when the provider raises during the probe request, the call
\* returns (False, "Gemini Error: " + the error's text); when it raises while
\* the lazy initialize builds the handle, the call returns (False, "Gemini API
\* client not initialized").  Either way nothing is raised, credential and
\* model are unchanged, the handle is the one held before the call or, if there
\* was none, the one the lazy initialize built, and the next test_connection
\* or process_single_cell whose provider calls all succeed with non-empty text
\* returns success.
C5_ProviderErrorReportedManagerUsable ==
    [][/\ (IsCall(last', {"test_connection"}) /\ last'.provErr # None)
          => /\ ~last'.ret.success
             /\ ~last'.raised
             /\ IF last'.reqs # <<>>
                THEN last'.ret.message = Some(ERROR_PREFIX \o last'.provErr[1])
                ELSE last'.ret.message = Some(NOT_INITIALIZED)
             /\ api_key'[last'.mgr] = api_key[last'.mgr]
             /\ model'[last'.mgr] = model[last'.mgr]
             /\ IF client[last'.mgr] # None \/ last'.reqs = <<>>
                THEN TripleKept(last'.mgr)
                ELSE client'[last'.mgr] # None
                     /\ client'[last'.mgr][1].model = model[last'.mgr]
       /\ (/\ IsCall(last, {"test_connection"}) /\ last.provErr # None
           /\ IsCall(last', {"test_connection", "process_single_cell"})
           /\ last'.mgr = last.mgr
           /\ last'.provErr = None
           /\ last'.gen # None => (/\ last'.gen[1].kind = "text"
                                   /\ last'.gen[1].text # None
                                   /\ TruthyText(last'.gen[1].text[1])))
          => last'.ret.success]_vars

C5_Witness ==
    /\ IsCall(last, {"test_connection"})
    /\ last.provErr # None
    /\ last.reqs # <<>>
    /\ last.lazyOk

\* C8: a process_single_cell call sends exactly one request when a handle is
\* available (held before the call or built by the lazy initialize) and none
\* otherwise, never a second one, and returns one outcome: a result or an
\* error message.
C8_AtMostOneRequestPerCell ==
    [][IsCall(last', {"process_single_cell"})
       => /\ Len(last'.reqs) =
                IF client[last'.mgr] # None \/ last'.lazyOk THEN 1 ELSE 0
          /\ (last'.ret.result = None) # (last'.ret.message = None)]_vars

C8_Witness ==
    /\ IsCall(last, {"process_single_cell"})
    /\ Len(last.reqs) = 1
    /\ last.gen # None
    /\ last.gen[1].kind = "raise"

\* r is t without its leading and trailing whitespace: a run of t's chunks
\* that neither starts nor ends with whitespace, with nothing but whitespace
\* cut off on either side.
IsTrimOf(r, t) ==
    \E i \in 1..(Len(t) + 1), j \in 0..Len(t) :
        /\ r = SubSeq(t, i, j)
        /\ \A k \in 1..(i - 1) : t[k] \in Whitespace
        /\ \A k \in (j + 1)..Len(t) : t[k] \in Whitespace
        /\ r # <<>> => r[1] \notin Whitespace /\ r[Len(r)] \notin Whitespace

GotText(c) ==
    /\ c.gen # None
    /\ c.gen[1].kind = "text"
    /\ c.gen[1].text # None
    /\ c.gen[1].text[1] # <<>>

\* C7: process_single_cell returns (True, t, None) exactly when the provider
\* call returns without error and with non-empty text, t being that text
\* without its leading and trailing whitespace; empty or absent text gives
\* (False, None, "Empty response from Gemini API"); in every outcome exactly
\* one of result and error is non-null.
C7_SuccessIffTextAndTrimmed ==
    IsCall(last, {"process_single_cell"})
    => /\ last.ret.success <=> GotText(last)
       /\ last.ret.success
            => /\ last.ret.message = None
               /\ last.ret.result # None
               /\ IsTrimOf(last.ret.result[1], last.gen[1].text[1])
       /\ (last.gen # None /\ last.gen[1].kind # "raise" /\ ~GotText(last))
            => last.ret = Ret(FALSE, None, Some(<<"Empty response from Gemini API">>))
       /\ (last.ret.result = None) # (last.ret.message = None)

C7_Witness ==
    /\ IsCall(last, {"process_single_cell"})
    /\ last.ret.success
    /\ last.gen[1].text[1] = <<" ", "P", "\n">>
    /\ last.ret.result = Some(<<"P">>)

\* The decimal numeral of n, stated by its value and not by how it is produced.
NumberOf(text) ==
    LET value[i \in 0..Len(text)] ==
            IF i = 0 THEN 0
            ELSE 10 * value[i - 1] + (CHOOSE d \in 0..9 : Digit(d) = text[i])
    IN  value[Len(text)]
Shown(value) ==
    IF value.t = "str" THEN value.v
    ELSE CHOOSE t \in SeqUpTo({Digit(d) : d \in 0..9}, 2) :
            /\ Len(t) >= 1
            /\ Len(t) > 1 => t[1] # "0"
            /\ NumberOf(t) = value.v

ExpectedPrompt(in) ==
    LET items == IF in.context_data = None THEN <<>> ELSE in.context_data[1]
        Line(e) == <<"- ">> \o e.key \o <<": ">> \o Shown(e.value) \o <<"\n">>
        Block[i \in 0..Len(items)] ==
            IF i = 0 THEN <<>> ELSE Block[i - 1] \o Line(items[i])
        head == in.system_prompt \o <<"\n", "\n">> \o in.user_prompt
                \o <<"\n", "\n", "Cell content: ">> \o in.cell_content
    IN  IF Len(items) = 0 THEN head
        ELSE head \o <<"\n", "\n", "Context information:", "\n">> \o Block[Len(items)]

\* C9: the prompt process_single_cell sends is system_prompt, a blank line,
\* user_prompt, a blank line, "Cell content: " and the cell text, followed,
\* if and only if context_data is non-empty, by a blank line, the line
\* "Context information:" and one line "- key: value" per entry in the
\* mapping's order; null or empty context_data appends nothing.
C9_PromptFormat ==
    (IsCall(last, {"process_single_cell"}) /\ last.reqs # <<>>)
    => last.reqs[1].prompt = ExpectedPrompt(last.args[1])

C9_Witness ==
    /\ IsCall(last, {"process_single_cell"})
    /\ last.reqs # <<>>
    /\ last.args[1].context_data # None
    /\ Len(last.args[1].context_data[1]) = 2
    /\ last.args[1].context_data[1][2].value = IntValue(42)
    /\ last.args[1].context_data[1][1].key = <<"Column", " ", "B">>

\* C10: every request a manager issues is authenticated with that manager's
\* own stored credential, and no call on one manager changes the credential
\* or the model the other manager's client handle is bound to.
BindingIn(clients, g, m) ==
    <<clients[m][1].model,
      IF clients[m][1].key = None THEN g ELSE clients[m][1].key>>

C10_ManagersIndependent ==
    [][/\ \A i \in DOMAIN last'.reqs :
            last'.reqs[i].key # None => last'.reqs[i].key = Some(last'.reqs[i].own)
       /\ \A m \in Managers \ {last'.mgr} :
            (client[m] # None /\ client'[m] # None)
            => BindingIn(client', genai_key', m) = BindingIn(client, genai_key, m)]_vars

\* C6: get_available_models always returns a list equal to the static
\* descriptor set, whatever callers did to the values returned before.
C6_ModelsAlwaysStatic ==
    lastModels # None => lastModels[1] = STATIC_DESCRIPTORS

====
